---- MODULE Spec2Model ----
(***************************************************************************)
(* A model of src/lib/nostr.ts: the nostrAuth identity session (a svelte    *)
(* writable store, mirrored into sessionStorage['private-key']) and the     *)
(* profilesMetadata cache filled by getProfileMetadata.                     *)
(*                                                                          *)
(* Strings that the code parses (hex secret keys) are sequences of          *)
(* one-character strings.  A public key is the symbolic point [mul |-> k]   *)
(* ("k times the generator"): deterministic and injective in the scalar k.  *)
(* An async function whose continuation writes state (tryLogin,            *)
(* getProfileMetadata) is cut at its await: the code up to the await is one *)
(* action, the continuation after it is another.                            *)
(***************************************************************************)
EXTENDS Integers, Sequences, FiniteSets

\* Length in bytes of a secret key in the model (32 in nostr-tools).
KeyBytes == 1
\* How many tryLogin calls may be suspended on window.nostr.getPublicKey().
MaxPending == 2
\* How many getProfileMetadata calls may be suspended on relayPool.get.
MaxLookups == 2
\* How many different metadata events the relays hold per author.
MaxEvents == 2

VARIABLES
    store,      \* the svelte store's value: the session
    slot,       \* sessionStorage['private-key']
    nostr,      \* whether window.nostr (the external signer) is present
    pending,    \* number of tryLogin calls suspended at line 111
    profilesMetadata, \* the profile cache (line 162)
    lookups,    \* per key, getProfileMetadata calls suspended at line 171
    done,       \* per key, the outcomes of the calls that have returned
    flow,       \* the createInvoice call in progress, or IdleFlow
    check,      \* the checkPayment call in progress, or IdleCheck
    last,       \* what the last step did: operation, outcome, calls it made
    prev        \* the identity step before the last: <<op, status>>

vars == <<store, slot, nostr, pending, profilesMetadata, lookups, done, flow,
          check, last, prev>>

authVars == <<store, slot, nostr, pending, prev>>
profileVars == <<profilesMetadata, lookups, done>>
zapVars == <<flow, check>>

-----------------------------------------------------------------------------
(* Values *)

\* An absent string (undefined, or getItem's null).  The code only ever tests
\* such a value for truthiness, which the empty string fails as well.
NoKey == <<>>

\* The scalar of no key: [mul |-> 0] stands for an absent public key.
NoPub == [mul |-> 0]

\* get(store) === null
NullStore == [set |-> FALSE, privkey |-> NoKey, pubkey |-> NoPub]

Session(privkey, pubkey) == [set |-> TRUE, privkey |-> privkey, pubkey |-> pubkey]

\* The characters appended to an input string: two hex digits and one
\* character that is no hex digit.
InputChars == {"0", "1", "z"}

HexDigits == <<"0", "1", "2", "3", "4", "5", "6", "7",
               "8", "9", "a", "b", "c", "d", "e", "f">>

IsHex(c) == \E i \in 1..16 : HexDigits[i] = c

HexVal(c) == CHOOSE i \in 0..15 : HexDigits[i + 1] = c

\* Buffer.from(s, 'hex'): the bytes of the leading pairs of hex digits; it stops
\* at the first pair that is not hex and drops an odd trailing character.
RECURSIVE FromHex(_)
FromHex(s) ==
    IF Len(s) < 2 \/ ~IsHex(s[1]) \/ ~IsHex(s[2])
    THEN <<>>
    ELSE <<16 * HexVal(s[1]) + HexVal(s[2])>> \o FromHex(SubSeq(s, 3, Len(s)))

\* Buffer.from(bytes).toString('hex')
RECURSIVE ToHex(_)
ToHex(bytes) ==
    IF bytes = <<>>
    THEN <<>>
    ELSE <<HexDigits[(bytes[1] \div 16) + 1], HexDigits[(bytes[1] % 16) + 1]>>
         \o ToHex(Tail(bytes))

\* The big-endian number of a byte string.
RECURSIVE Scalar(_)
Scalar(bytes) ==
    IF bytes = <<>>
    THEN 0
    ELSE bytes[Len(bytes)] + 256 * Scalar(SubSeq(bytes, 1, Len(bytes) - 1))

\* The order of the group: below 256^KeyBytes, as secp256k1's is below 2^256.
CurveOrder == (256 ^ KeyBytes) - 239

\* getPublicKey accepts exactly KeyBytes bytes that are a scalar in 1..n-1.
ValidSecret(bytes) ==
    /\ Len(bytes) = KeyBytes
    /\ Scalar(bytes) \in 1..(CurveOrder - 1)

\* getPublicKey(bytes) where it does not throw.
GetPublicKey(bytes) == [mul |-> Scalar(bytes)]

\* KeyBytes - 1 zero bytes in hex: the leading digits of the model's keys.
RECURSIVE Zeros(_)
Zeros(n) == IF n = 0 THEN <<>> ELSE <<"0", "0">> \o Zeros(n - 1)

\* Hex strings of a key's length: leading zero bytes, then a last byte of every
\* pair of the input digits (the scalars 0, 1, 16 and 17).
KeyStrings ==
    {Zeros(KeyBytes - 1) \o <<a, b>> : a \in {"0", "1"}, b \in {"0", "1"}}

\* The strings a caller passes to loginWithPrivkey: the empty string, and each
\* key string as it is, cut by one character, followed by one more character,
\* and with its first or its last character replaced by a non-hex one.
PrivkeyInputs ==
    {<<>>} \cup KeyStrings
    \cup {SubSeq(h, 1, Len(h) - 1) : h \in KeyStrings}
    \cup {h \o <<c>> : h \in KeyStrings, c \in InputChars}
    \cup {<<"z">> \o Tail(h) : h \in KeyStrings}
    \cup {SubSeq(h, 1, Len(h) - 1) \o <<"z">> : h \in KeyStrings}

\* The keys generateSecretKey() may return (those the key strings spell).
SecretKeys == {b \in {FromHex(h) : h \in KeyStrings} : ValidSecret(b)}

\* The public keys window.nostr.getPublicKey() may resolve with (the
\* extension holds a key of its own), which are the peers and authors too.
SignerPubkeys == {GetPublicKey(FromHex(Zeros(KeyBytes - 1) \o h)) :
                    h \in {<<"0", "1">>, <<"1", "0">>}}

\* x is the hex encoding of exactly KeyBytes bytes.
IsKeyHex(x) ==
    /\ Len(x) = 2 * KeyBytes
    /\ \A i \in 1..Len(x) : IsHex(x[i])

\* relayPool.get's null, and getProfileMetadata's.
NullEvent == [pubkey |-> NoPub, id |-> 0]

\* A bech32 identifier as nip19.decode sees it: a string whose checksum
\* verifies and whose data is the key, or one that does not decode.
Npub(publicKey) == [checksum |-> TRUE, data |-> publicKey]
BadIdentifier == [checksum |-> FALSE, data |-> NoPub]
Destinations == {Npub(k) : k \in SignerPubkeys} \cup {BadIdentifier}

\* A number the caller passes as `amount`: the exact fraction num/den in
\* lowest terms.  The denominators are powers of two, so that the double
\* arithmetic of line 225 is exact on them.
Amounts == {[num |-> 0, den |-> 1], [num |-> 1000, den |-> 1],
            [num |-> 3, den |-> 2], [num |-> 1, den |-> 2048]}

\* The integer n as a number of the kind above.
AsNumber(n) == [num |-> n, den |-> 1]

\* Math.floor(amount * 1000) (line 225).
MillisFloor(amount) == (amount.num * 1000) \div amount.den

EventIds == {"", "abc123"}

\* A zap endpoint as `new URL(zapEndpoint)` parses it (line 220): protocol,
\* host and path in `base`, the search parameters as <<name, value>> pairs.
NoEndpoint == [base |-> "", query |-> {}]
Endpoints == {[base |-> "https://pay.example/cb", query |-> q] :
                q \in {{}, {<<"foo", "1">>},
                       {<<"foo", "1">>, <<"amount", "5">>}}}

\* JSON.stringify and the parse that undoes it.
JsonStringify(value) == [json |-> value]
JsonParse(text) == text.json

\* An HTTP response body: JSON text, or text that is not JSON.
NotJson == [html |-> "<h1>error</h1>"]
IsJson(body) == DOMAIN body = {"json"}
InvoiceBodies == {JsonStringify([pr |-> "lnbc1"]), NotJson}
VerifyBodies == {JsonStringify([paid |-> b]) : b \in BOOLEAN} \cup {NotJson}
VerifyUrls == {"https://pay.example/verify/1"}

\* The zap request makeZapRequest builds (kind 9734): the tags p, amount,
\* relays and e as fields; e is "" when there is no e tag.
NoZap == [kind |-> 0, content |-> "", p |-> NoPub, amount |-> AsNumber(0),
          relays |-> "", e |-> ""]

\* The URL that is fetched (lines 222-229): the base and the merged
\* parameters, `rest` being those the endpoint's own URL contributes.
NoUrl == [base |-> "", rest |-> {}, comment |-> "", amount |-> 0,
          nostr |-> JsonStringify(NoZap)]

\* No createInvoice call is running.  Of a running call the fields hold
\* the arguments, what each stage produced, and how many times it has
\* called fetch.
IdleFlow == [pc |-> "idle", publicKey |-> NoPub, message |-> "",
             amount |-> AsNumber(0), eventId |-> "", profile |-> NullEvent,
             endpoint |-> NoEndpoint, zap |-> NoZap, url |-> NoUrl,
             fetches |-> 0]

\* No checkPayment call is running.
IdleCheck == [pc |-> "idle", verify |-> "", fetches |-> 0]

-----------------------------------------------------------------------------
(* What a step reports in `last` *)

NoCall == "none"

\* The error kinds of the specification's taxonomy and the errors the code
\* raises.  getPublicKey's rejection of a byte string is the malformed-key
\* error; a null or undefined dereference is a TypeError.
MalformedKey == "MalformedKey"
NoActiveSession == "NoActiveSession"
TypeError == "TypeError"
SignerRejected == "SignerRejected"
\* The errors of createInvoice and checkPayment, by error.name where the
\* code sets one (lines 200, 208, 235, 253) and by origin otherwise.
InvalidRecipient == "nip19.decode"
ProfileNotFound == "ProfileMetadata"
NoPaymentEndpoint == "ZapEndpoint"
AmountNotGiven == "amount not given"
InvoiceRequestFailed == "InvoiceRequest"
VerifyRequestFailed == "VerifyRequest"
FetchFailed == "fetch"
SyntaxError == "SyntaxError"
NoError == "none"

Report(op, arg, status, err, ext, local, alerted, ret) ==
    [op |-> op, arg |-> arg, status |-> status, err |-> err, ext |-> ext,
     local |-> local, alerted |-> alerted, ret |-> ret]

NoArg == <<>>
NoRet == <<>>

-----------------------------------------------------------------------------
(* The identity session: nostrAuth *)

\* get(store)?.pubkey is truthy
Active(s) == s.set /\ s.pubkey # NoPub

LocalKey(s) == Active(s) /\ s.privkey # NoKey

ExternalSigner(s) == Active(s) /\ s.privkey = NoKey

LoggedOut(s) == ~s.set

\* A subscriber that persists the public key of a session without a secret.
SubscriberPersistsPubkey(keys, item) ==
    IF keys.set /\ keys.privkey # NoKey THEN keys.privkey
    ELSE IF keys.set THEN ToHex(<<keys.pubkey.mul>>)
    ELSE item

\* A subscriber that never writes the slot.
SubscriberSkips(keys, item) == item

\* The store's subscriber (lines 44-46), as the slot it leaves behind: it
\* writes the session's privkey when there is one and otherwise does nothing.
Subscriber(keys, item) ==
    IF keys.set /\ keys.privkey # NoKey THEN keys.privkey ELSE item

\* An initial value that ignores sessionStorage.
BootForgets(item) == NullStore

\* The store's initial value (lines 33-42), from sessionStorage's item.
Boot(item) ==
    IF item # NoKey
    THEN Session(item, GetPublicKey(FromHex(item)))
    ELSE NullStore

\* A store.set whose subscriber is not run.
StoreSetUnobserved(v) ==
    /\ store' = v
    /\ slot' = slot

\* store.set(v): the new value, then the subscriber run on it.
StoreSet(v) ==
    /\ store' = v
    /\ slot' = Subscriber(v, slot)

\* loginWithRandomKeys' effect (lines 49-65) with generateSecretKey() = privkey.
RandomKeys(privkey) ==
    StoreSet(Session(ToHex(privkey), GetPublicKey(privkey)))

\* One more identity step: the last step becomes the one before.
Logged == prev' = <<last.op, last.status>>

Init ==
    /\ store = Boot(NoKey)
    /\ slot = Subscriber(Boot(NoKey), NoKey)
    /\ nostr \in BOOLEAN
    /\ pending = 0
    /\ profilesMetadata = <<>>
    /\ lookups = [k \in SignerPubkeys |-> 0]
    /\ done = [k \in SignerPubkeys |-> {}]
    /\ flow = IdleFlow
    /\ check = IdleCheck
    /\ last = Report("init", NoArg, "ok", NoError, NoCall, NoCall, FALSE, NoRet)
    /\ prev = <<"init", "ok">>

\* signOut without the store.set(null) of line 88.
SignOutKeepsSession ==
    /\ store' = store
    /\ slot' = NoKey
    /\ last' = Report("signOut", NoArg, "ok", NoError, NoCall, NoCall, FALSE, NoRet)
    /\ Logged
    /\ UNCHANGED <<nostr, pending, profileVars, zapVars>>

\* signOut without the removeItem of line 89.
SignOutKeepsSlot ==
    /\ store' = NullStore
    /\ slot' = slot
    /\ last' = Report("signOut", NoArg, "ok", NoError, NoCall, NoCall, FALSE, NoRet)
    /\ Logged
    /\ UNCHANGED <<nostr, pending, profileVars, zapVars>>

\* signOut (lines 87-90)
SignOut ==
    /\ store' = NullStore
    /\ slot' = NoKey
    /\ last' = Report("signOut", NoArg, "ok", NoError, NoCall, NoCall, FALSE, NoRet)
    /\ Logged
    /\ UNCHANGED <<nostr, pending, profileVars, zapVars>>

\* loginWithRandomKeys (lines 48-68)
LoginWithRandomKeys ==
    \E privkey \in SecretKeys :
        /\ RandomKeys(privkey)
        /\ last' = Report("loginWithRandomKeys", NoArg, "ok", NoError, NoCall,
                          "generateSecretKey", TRUE, TRUE)
        /\ Logged
    /\ UNCHANGED <<nostr, pending, profileVars, zapVars>>

\* loginWithPrivkey (lines 92-99): getPublicKey throws before the store is set.
LoginWithPrivkey ==
    \E privkey \in PrivkeyInputs :
        /\ IF ValidSecret(FromHex(privkey))
           THEN /\ StoreSet(Session(privkey, GetPublicKey(FromHex(privkey))))
                /\ last' = Report("loginWithPrivkey", privkey, "ok", NoError,
                                  NoCall, "getPublicKey", FALSE, NoRet)
           ELSE /\ UNCHANGED <<store, slot>>
                /\ last' = Report("loginWithPrivkey", privkey, "throw", MalformedKey,
                                  NoCall, "getPublicKey", FALSE, NoRet)
        /\ Logged
    /\ UNCHANGED <<nostr, pending, profileVars, zapVars>>

\* tryLogin without the early return of line 107.
TryLoginAlwaysDiscovers ==
    /\ \/ /\ nostr
          /\ pending < MaxPending
          /\ pending' = pending + 1
          /\ UNCHANGED <<store, slot>>
          /\ last' = Report("tryLogin", NoArg, "pending", NoError, "getPublicKey",
                            NoCall, FALSE, NoRet)
       \/ /\ ~nostr
          /\ \E privkey \in SecretKeys : RandomKeys(privkey)
          /\ UNCHANGED pending
          /\ last' = Report("tryLogin", NoArg, "ok", NoError, NoCall,
                            "generateSecretKey", TRUE, TRUE)
    /\ Logged
    /\ UNCHANGED <<nostr, profileVars, zapVars>>

\* tryLogin up to its await (lines 106-111, 119-121): the early return, the
\* call of window.nostr.getPublicKey() that suspends it, that call throwing at
\* once (the catch of line 116), or no signer at all.
TryLogin ==
    /\ \/ /\ Active(store)
          /\ UNCHANGED <<store, slot, pending>>
          /\ last' = Report("tryLogin", NoArg, "ok", NoError, NoCall, NoCall,
                            FALSE, TRUE)
       \/ /\ ~Active(store)
          /\ nostr
          /\ pending < MaxPending
          /\ pending' = pending + 1
          /\ UNCHANGED <<store, slot>>
          /\ last' = Report("tryLogin", NoArg, "pending", NoError, "getPublicKey",
                            NoCall, FALSE, NoRet)
       \/ /\ ~Active(store)
          /\ nostr
          /\ \E privkey \in SecretKeys : RandomKeys(privkey)
          /\ UNCHANGED pending
          /\ last' = Report("tryLogin", NoArg, "ok", NoError, "getPublicKey",
                            "generateSecretKey", TRUE, TRUE)
       \/ /\ ~Active(store)
          /\ ~nostr
          /\ \E privkey \in SecretKeys : RandomKeys(privkey)
          /\ UNCHANGED pending
          /\ last' = Report("tryLogin", NoArg, "ok", NoError, NoCall,
                            "generateSecretKey", TRUE, TRUE)
    /\ Logged
    /\ UNCHANGED <<nostr, profileVars, zapVars>>

\* A tryLogin that adds the signer's public key to the session it finds.
TryLoginResolvedKeepsSecret ==
    /\ pending > 0
    /\ \E pubkey \in SignerPubkeys :
        /\ StoreSet(Session(store.privkey, pubkey))
        /\ last' = Report("tryLogin.resolved", pubkey, "ok", NoError, NoCall,
                          NoCall, FALSE, TRUE)
    /\ pending' = pending - 1
    /\ Logged
    /\ UNCHANGED <<nostr, profileVars, zapVars>>

\* tryLogin after its await, the signer having answered (lines 111-115).
TryLoginResolved ==
    /\ pending > 0
    /\ \E pubkey \in SignerPubkeys :
        /\ StoreSet(Session(NoKey, pubkey))
        /\ last' = Report("tryLogin.resolved", pubkey, "ok", NoError, NoCall,
                          NoCall, FALSE, TRUE)
    /\ pending' = pending - 1
    /\ Logged
    /\ UNCHANGED <<nostr, profileVars, zapVars>>

\* tryLogin without the catch of lines 116-118: the rejection reaches the caller.
TryLoginRejectedRethrows ==
    /\ pending > 0
    /\ UNCHANGED <<store, slot>>
    /\ last' = Report("tryLogin.rejected", NoArg, "throw", SignerRejected, NoCall,
                      NoCall, FALSE, NoRet)
    /\ pending' = pending - 1
    /\ Logged
    /\ UNCHANGED <<nostr, profileVars, zapVars>>

\* tryLogin after its await, the signer having rejected (lines 116-118).
TryLoginRejected ==
    /\ pending > 0
    /\ \E privkey \in SecretKeys : RandomKeys(privkey)
    /\ last' = Report("tryLogin.rejected", NoArg, "ok", NoError, NoCall,
                      "generateSecretKey", TRUE, TRUE)
    /\ pending' = pending - 1
    /\ Logged
    /\ UNCHANGED <<nostr, profileVars, zapVars>>

\* The texts and peers of a direct message, and the fields of an event.
Texts == {"", "gm"}
Kinds == {1, 4}
TagLists == {<<>>, <<<<"e", "abc123">>>>}

\* encryptDM / decryptDM (lines 123-140).  Nothing follows the await but the
\* return, so the signer's answer is drawn in the same step.
Crypt(op) ==
    \E otherPubkey \in SignerPubkeys, text \in Texts :
        /\ \/ /\ store.privkey # NoKey
              /\ last' = Report(op, <<otherPubkey, text>>, "ok", NoError, NoCall,
                                "nip04", FALSE, [by |-> "local", text |-> text])
           \/ /\ store.privkey = NoKey
              /\ ~nostr
              /\ last' = Report(op, <<otherPubkey, text>>, "throw", TypeError,
                                NoCall, NoCall, FALSE, NoRet)
           \/ /\ store.privkey = NoKey
              /\ nostr
              /\ \/ last' = Report(op, <<otherPubkey, text>>, "ok", NoError, "nip04",
                                   NoCall, FALSE, [by |-> "signer", text |-> text])
                 \/ last' = Report(op, <<otherPubkey, text>>, "throw", SignerRejected,
                                   "nip04", NoCall, FALSE, NoRet)
        /\ Logged
        /\ UNCHANGED <<store, slot, nostr, pending, profileVars, zapVars>>

EncryptDM == Crypt("encryptDM")

DecryptDM == Crypt("decryptDM")

\* makeEvent (lines 141-157): line 142 destructures get(store), null or not.
MakeEvent ==
    \E kind \in Kinds, content \in Texts, tags \in TagLists :
        LET arg == <<kind, content, tags>>
            event(by) == [kind |-> kind, content |-> content, tags |-> tags,
                          pubkey |-> store.pubkey, by |-> by]
        IN  /\ \/ /\ ~store.set
                  /\ last' = Report("makeEvent", arg, "throw", TypeError, NoCall,
                                    NoCall, FALSE, NoRet)
               \/ /\ store.set
                  /\ store.privkey # NoKey
                  /\ last' = Report("makeEvent", arg, "ok", NoError, NoCall,
                                    "finalizeEvent", FALSE, event("local"))
               \/ /\ store.set
                  /\ store.privkey = NoKey
                  /\ ~nostr
                  /\ last' = Report("makeEvent", arg, "throw", TypeError, NoCall,
                                    NoCall, FALSE, NoRet)
               \/ /\ store.set
                  /\ store.privkey = NoKey
                  /\ nostr
                  /\ \/ last' = Report("makeEvent", arg, "ok", NoError, "signEvent",
                                       NoCall, FALSE, event("signer"))
                     \/ last' = Report("makeEvent", arg, "throw", SignerRejected,
                                       "signEvent", NoCall, FALSE, NoRet)
            /\ Logged
        /\ UNCHANGED <<store, slot, nostr, pending, profileVars, zapVars>>

\* A process restart: the module is evaluated again (lines 16, 32-46, 162).
\* Only sessionStorage survives; suspended calls are gone; the extension may
\* or may not be there.  getPublicKey throwing at line 39 fails the load.
Restart ==
    /\ slot = NoKey \/ ValidSecret(FromHex(slot))
    /\ store' = Boot(slot)
    /\ slot' = Subscriber(Boot(slot), slot)
    /\ nostr' \in BOOLEAN
    /\ pending' = 0
    /\ profilesMetadata' = <<>>
    /\ lookups' = [k \in SignerPubkeys |-> 0]
    /\ done' = [k \in SignerPubkeys |-> {}]
    /\ flow' = IdleFlow
    /\ check' = IdleCheck
    /\ last' = Report("restart", NoArg, "ok", NoError, NoCall, NoCall, FALSE, NoRet)
    /\ Logged

\* No identity operation is suspended.
Idle == pending = 0

\* The identity operations, overlapping at tryLogin's await.
Next ==
    \/ SignOut
    \/ LoginWithRandomKeys
    \/ LoginWithPrivkey
    \/ TryLogin
    \/ TryLoginResolved
    \/ TryLoginRejected
    \/ EncryptDM
    \/ DecryptDM
    \/ MakeEvent
    \/ Restart

Spec == Init /\ [][Next]_vars

\* The identity operations serialized: none starts while tryLogin is suspended.
NextSerial ==
    \/ Idle /\ SignOut
    \/ Idle /\ LoginWithRandomKeys
    \/ Idle /\ LoginWithPrivkey
    \/ Idle /\ TryLogin
    \/ TryLoginResolved
    \/ TryLoginRejected
    \/ Idle /\ EncryptDM
    \/ Idle /\ DecryptDM
    \/ Idle /\ MakeEvent
    \/ Restart

SpecSerial == Init /\ [][NextSerial]_vars

-----------------------------------------------------------------------------
(* The profile directory: profilesMetadata and getProfileMetadata *)

\* The authors looked up.
Authors == SignerPubkeys

\* The metadata events the relays may answer with for an author.
EventsOf(publicKey) == {[pubkey |-> publicKey, id |-> i] : i \in 1..MaxEvents}

\* profilesMetadata.find(profile => profile.pubkey == publicKey) (line 165):
\* the first such entry, or NullEvent for undefined.
Find(cache, publicKey) ==
    LET hits == {i \in 1..Len(cache) : cache[i].pubkey = publicKey}
    IN  IF hits = {}
        THEN NullEvent
        ELSE cache[CHOOSE i \in hits : \A j \in hits : i <= j]

\* How many entries the cache holds for a key.
Entries(cache, publicKey) ==
    Cardinality({i \in 1..Len(cache) : cache[i].pubkey = publicKey})

\* A getProfileMetadata that caches whatever the relays answered, null too.
PushAlways(cache, metadataEvent) == Append(cache, metadataEvent)

\* A getProfileMetadata that never caches what it found.
PushNothing(cache, metadataEvent) == cache

\* Lines 177-179: a non-null answer is pushed onto the array.
Push(cache, metadataEvent) ==
    IF metadataEvent # NullEvent THEN Append(cache, metadataEvent) ELSE cache

\* The getProfileMetadata calls suspended at line 171, over all keys.
RECURSIVE SumOver(_, _)
SumOver(f, keys) ==
    IF keys = {}
    THEN 0
    ELSE LET k == CHOOSE x \in keys : TRUE
         IN  f[k] + SumOver(f, keys \ {k})

InFlight(f) == SumOver(f, DOMAIN f)

\* getProfileMetadata up to its await (lines 163-171): a cache hit returns the
\* entry; a miss queries the relays and suspends.
GetProfileMetadata ==
    \E publicKey \in Authors :
        LET getFromCache == Find(profilesMetadata, publicKey)
        IN  /\ \/ /\ getFromCache # NullEvent
                  /\ done' = [done EXCEPT ![publicKey] = @ \cup {"event"}]
                  /\ UNCHANGED lookups
                  /\ last' = Report("getProfileMetadata", publicKey, "ok", NoError,
                                    NoCall, NoCall, FALSE, getFromCache)
               \/ /\ getFromCache = NullEvent
                  /\ InFlight(lookups) < MaxLookups
                  /\ lookups' = [lookups EXCEPT ![publicKey] = @ + 1]
                  /\ UNCHANGED done
                  /\ last' = Report("getProfileMetadata", publicKey, "pending",
                                    NoError, "relayPool.get", NoCall, FALSE, NoRet)
            /\ UNCHANGED <<authVars, profilesMetadata, zapVars>>

\* getProfileMetadata after its await, the relays having answered with an
\* event or with null (lines 171-181).
LookupReturned ==
    \E publicKey \in Authors :
        /\ lookups[publicKey] > 0
        /\ \E metadataEvent \in EventsOf(publicKey) \cup {NullEvent} :
            /\ profilesMetadata' = Push(profilesMetadata, metadataEvent)
            /\ done' = [done EXCEPT ![publicKey] =
                          @ \cup {IF metadataEvent = NullEvent THEN "null" ELSE "event"}]
            /\ last' = Report("getProfileMetadata.returned", publicKey, "ok",
                              NoError, NoCall, NoCall, FALSE, metadataEvent)
        /\ lookups' = [lookups EXCEPT ![publicKey] = @ - 1]
        /\ UNCHANGED <<authVars, zapVars>>

\* getProfileMetadata after its await, relayPool.get having rejected: the
\* catch of lines 182-185 logs and returns null.
LookupFailed ==
    \E publicKey \in Authors :
        /\ lookups[publicKey] > 0
        /\ done' = [done EXCEPT ![publicKey] = @ \cup {"error"}]
        /\ last' = Report("getProfileMetadata.failed", publicKey, "ok", NoError,
                          NoCall, NoCall, FALSE, NullEvent)
        /\ lookups' = [lookups EXCEPT ![publicKey] = @ - 1]
        /\ UNCHANGED <<authVars, profilesMetadata, zapVars>>

\* Profile lookups, overlapping at the await of relayPool.get, in one process
\* lifetime: a restart empties the cache and drops the suspended calls, which
\* is Init again.
NextProfile ==
    \/ GetProfileMetadata
    \/ LookupReturned
    \/ LookupFailed

SpecProfile == Init /\ [][NextProfile]_vars

-----------------------------------------------------------------------------
(* Zaps: createInvoice and checkPayment *)

\* nostr-tools' makeZapRequest (called at lines 212-218): the amount tag is
\* amount.toString(), the number it was given; the e tag is there only for
\* a non-empty event id.
MakeZapRequest(profile, event, amount, relays, comment) ==
    [kind |-> 9734, content |-> comment, p |-> profile, amount |-> amount,
     relays |-> relays, e |-> event]

\* Lines 220-229: the endpoint's own parameters, overridden by comment,
\* amount and nostr, on the endpoint's protocol, host and path.
CallbackUrl(zapEndpoint, message, amount, zapRequestEvent) ==
    [base |-> zapEndpoint.base,
     rest |-> {q \in zapEndpoint.query : q[1] \notin {"comment", "amount", "nostr"}},
     comment |-> message,
     amount |-> MillisFloor(amount),
     nostr |-> JsonStringify(zapRequestEvent)]

\* The catch of lines 240-243 (and 258-260): log, then throw the error again.
Rethrown(op, arg, error) ==
    Report(op, arg, "throws", error, NoCall, NoCall, FALSE, NoRet)

\* createInvoice up to its first await that leaves the process (lines
\* 194-204): decode, then getProfileMetadata, which answers from the cache
\* (and getZapEndpoint is called) or queries the relays.
CreateInvoice ==
    /\ flow.pc = "idle"
    /\ \E destination \in Destinations, message \in Texts, amount \in Amounts,
          eventId \in EventIds :
        LET call == [IdleFlow EXCEPT !.message = message, !.amount = amount,
                                     !.eventId = eventId]
            publicKey == destination.data
            getFromCache == Find(profilesMetadata, publicKey)
        IN  IF ~destination.checksum
            THEN /\ flow' = IdleFlow
                 /\ last' = Rethrown("createInvoice", destination, InvalidRecipient)
            ELSE IF getFromCache # NullEvent
            THEN /\ flow' = [call EXCEPT !.pc = "endpoint", !.publicKey = publicKey,
                                         !.profile = getFromCache]
                 /\ last' = Report("createInvoice", destination, "pending", NoError,
                                   "getZapEndpoint", NoCall, FALSE, NoRet)
            ELSE /\ flow' = [call EXCEPT !.pc = "profile", !.publicKey = publicKey]
                 /\ last' = Report("createInvoice", destination, "pending", NoError,
                                   "relayPool.get", NoCall, FALSE, NoRet)
    /\ UNCHANGED <<authVars, profileVars, check>>

\* A createInvoice that goes on without a profile.
ProfileNeverMissing(profileMetadata) == FALSE

\* Line 198: if (!profileMetadata)
ProfileMissing(profileMetadata) == profileMetadata = NullEvent

\* Lines 198-204, getProfileMetadata having returned: no profile throws
\* ProfileMetadata, otherwise getZapEndpoint is called.
Resolved(profileMetadata) ==
    IF ProfileMissing(profileMetadata)
    THEN /\ flow' = IdleFlow
         /\ last' = Rethrown("createInvoice.profile", profileMetadata,
                             ProfileNotFound)
    ELSE /\ flow' = [flow EXCEPT !.pc = "endpoint", !.profile = profileMetadata]
         /\ last' = Report("createInvoice.profile", profileMetadata, "pending",
                           NoError, "getZapEndpoint", NoCall, FALSE, NoRet)

\* The relays answered the lookup createInvoice is waiting for (lines
\* 171-185): an event is cached and returned, null is returned, and a
\* failure is logged and null returned.
InvoiceProfile ==
    /\ flow.pc = "profile"
    /\ \/ \E metadataEvent \in EventsOf(flow.publicKey) \cup {NullEvent} :
            /\ profilesMetadata' = Push(profilesMetadata, metadataEvent)
            /\ Resolved(metadataEvent)
       \/ /\ Resolved(NullEvent)
          /\ UNCHANGED profilesMetadata
    /\ UNCHANGED <<authVars, lookups, done, check>>

\* getZapEndpoint answered (lines 204-231): null throws ZapEndpoint;
\* otherwise the zap request is made (makeZapRequest throws on a falsy
\* amount), the URL is built and fetched.
InvoiceEndpoint ==
    /\ flow.pc = "endpoint"
    /\ \E zapEndpoint \in Endpoints \cup {NoEndpoint} :
        LET zapRequestEvent == MakeZapRequest(flow.publicKey, flow.eventId,
                                              flow.amount, "relayList", flow.message)
            url == CallbackUrl(zapEndpoint, flow.message, flow.amount, zapRequestEvent)
        IN  IF zapEndpoint = NoEndpoint
            THEN /\ flow' = IdleFlow
                 /\ last' = Rethrown("createInvoice.endpoint", zapEndpoint,
                                     NoPaymentEndpoint)
            ELSE IF flow.amount.num = 0
            THEN /\ flow' = IdleFlow
                 /\ last' = Rethrown("createInvoice.endpoint", zapEndpoint,
                                     AmountNotGiven)
            ELSE /\ flow' = [flow EXCEPT !.pc = "fetch", !.endpoint = zapEndpoint,
                                         !.zap = zapRequestEvent, !.url = url,
                                         !.fetches = @ + 1]
                 /\ last' = Report("createInvoice.endpoint", zapEndpoint,
                                   "pending", NoError, "fetch", NoCall, FALSE, NoRet)
    /\ UNCHANGED <<authVars, profileVars, check>>

\* What an awaited fetch may come to: a response with a status that is ok
\* or not and a body, or a rejection.
Responses(bodies) ==
    {[rejected |-> FALSE, ok |-> o, body |-> b] : o \in BOOLEAN, b \in bodies}
    \cup {[rejected |-> TRUE, ok |-> FALSE, body |-> NotJson]}

\* A continuation that returns the body whatever the status was.
AnswerIgnoresStatus(op, response, error) ==
    IF response.rejected THEN Rethrown(op, response, FetchFailed)
    ELSE IF ~IsJson(response.body)
    THEN Report(op, response, "throws", SyntaxError, "Response.json", NoCall,
                FALSE, NoRet)
    ELSE Report(op, response, "ok", NoError, "Response.json", NoCall, FALSE,
                JsonParse(response.body))

\* Lines 233-239 and 251-257 after the fetch: the report of a step `op`
\* that got `response`.  Response.json is called on an ok response only,
\* and throws on a body that is not JSON.
Answer(op, response, error) ==
    IF response.rejected THEN Rethrown(op, response, FetchFailed)
    ELSE IF ~response.ok THEN Rethrown(op, response, error)
    ELSE IF ~IsJson(response.body)
    THEN Report(op, response, "throws", SyntaxError, "Response.json", NoCall,
                FALSE, NoRet)
    ELSE Report(op, response, "ok", NoError, "Response.json", NoCall, FALSE,
                JsonParse(response.body))

\* The invoice request came back (lines 231-239).
InvoiceResponse ==
    /\ flow.pc = "fetch"
    /\ \E invoiceRequest \in Responses(InvoiceBodies) :
        /\ flow' = IdleFlow
        /\ last' = Answer("createInvoice.response", invoiceRequest,
                          InvoiceRequestFailed)
    /\ UNCHANGED <<authVars, profileVars, check>>

\* A checkPayment that sends its GET twice.
CheckPaymentTwice ==
    /\ check.pc = "idle"
    /\ \E verify \in VerifyUrls :
        /\ check' = [IdleCheck EXCEPT !.pc = "fetch", !.verify = verify,
                                      !.fetches = @ + 2]
        /\ last' = Report("checkPayment", verify, "pending", NoError, "fetch",
                          NoCall, FALSE, NoRet)
    /\ UNCHANGED <<authVars, profileVars, flow>>

\* checkPayment up to its await (lines 246-249): the GET is sent.
CheckPayment ==
    /\ check.pc = "idle"
    /\ \E verify \in VerifyUrls :
        /\ check' = [IdleCheck EXCEPT !.pc = "fetch", !.verify = verify,
                                      !.fetches = @ + 1]
        /\ last' = Report("checkPayment", verify, "pending", NoError, "fetch",
                          NoCall, FALSE, NoRet)
    /\ UNCHANGED <<authVars, profileVars, flow>>

\* The verify request came back (lines 249-257).
CheckResponse ==
    /\ check.pc = "fetch"
    /\ \E verifyRequest \in Responses(VerifyBodies) :
        /\ check' = IdleCheck
        /\ last' = Answer("checkPayment.response", verifyRequest,
                          VerifyRequestFailed)
    /\ UNCHANGED <<authVars, profileVars, flow>>

\* Zaps and payment checks of one process lifetime, a payment check
\* overlapping an invoice request at their awaits.
NextZap ==
    \/ CreateInvoice
    \/ InvoiceProfile
    \/ InvoiceEndpoint
    \/ InvoiceResponse
    \/ CheckPayment
    \/ CheckResponse

SpecZap == Init /\ [][NextZap]_vars

-----------------------------------------------------------------------------
(* Claims *)

\* The session generated a key of its own: a key generateSecretKey() returns,
\* held in hex with the public key derived from it.
FreshLocalKey(s) ==
    \E b \in SecretKeys : s = Session(ToHex(b), GetPublicKey(b))

\* C1: makeEvent called while logged out (the store is null) fails with
\* NoActiveSession and with no other error, calls neither the local signing
\* routine nor the external signer, and leaves the session and the slot as
\* they were.
C1_MakeEventLoggedOutFailsNoActiveSession ==
    [][(LoggedOut(store) /\ last'.op = "makeEvent")
         => /\ last'.status = "throw"
            /\ last'.err = NoActiveSession
            /\ last'.ext = NoCall
            /\ last'.local = NoCall
            /\ store' = store
            /\ slot' = slot]_vars

\* C2: encryptDM and decryptDM called while logged out fail with
\* NoActiveSession and never call the external signer, whether or not one is
\* present; they produce a result only when the session is active.
C2_CryptLoggedOutFailsNoActiveSession ==
    [][(last'.op \in {"encryptDM", "decryptDM"})
         => /\ LoggedOut(store)
                => /\ last'.status = "throw"
                   /\ last'.err = NoActiveSession
                   /\ last'.ext = NoCall
            /\ last'.status = "ok" => Active(store)]_vars

\* C3: whenever tryLogin returns the session is active and the caller gets
\* true, never the signer's error: after the signer's answer the session
\* holds the discovered public key and no secret; after its rejection, or
\* with no signer, it holds a freshly generated local key.
C3_TryLoginReturnsActive ==
    [][/\ (last'.op \in {"tryLogin", "tryLogin.resolved", "tryLogin.rejected"})
            => /\ last'.status \in {"ok", "pending"}
               /\ last'.status = "ok" => (Active(store') /\ last'.ret = TRUE)
       /\ (last'.op = "tryLogin.resolved")
            => /\ store' = Session(NoKey, last'.arg)
               /\ ExternalSigner(store')
       /\ (last'.op = "tryLogin.rejected")
            => /\ last'.status = "ok"
               /\ FreshLocalKey(store')
       /\ (last'.op = "tryLogin" /\ ~Active(store) /\ ~nostr)
            => /\ last'.status = "ok"
               /\ FreshLocalKey(store')
       /\ (last'.op = "tryLogin" /\ ~Active(store) /\ nostr)
            => \/ last'.status = "pending" /\ pending' = pending + 1
               \/ last'.status = "ok" /\ FreshLocalKey(store')]_vars

\* C3's case: a tryLogin suspended on the signer has returned through the
\* fallback, with a local key.
C3_Witness ==
    /\ last.op = "tryLogin.rejected"
    /\ last.status = "ok"
    /\ prev = <<"tryLogin", "pending">>
    /\ LocalKey(store)

\* C4: tryLogin called in an active session, local key or external signer,
\* returns true and changes nothing: the session and the slot stay, the
\* signer is not asked, no key is generated, no notification is shown.
C4_TryLoginActiveIsNoOp ==
    [][(last'.op = "tryLogin" /\ Active(store))
         => /\ store' = store
            /\ slot' = slot
            /\ pending' = pending
            /\ last'.status = "ok"
            /\ last'.ret = TRUE
            /\ last'.ext = NoCall
            /\ last'.local = NoCall
            /\ ~last'.alerted]_vars

\* C4's case: tryLogin has returned at once in an external-signer session.
C4_Witness ==
    /\ last.op = "tryLogin"
    /\ last.status = "ok"
    /\ last.local = NoCall
    /\ prev = <<"tryLogin.resolved", "ok">>
    /\ ExternalSigner(store)

\* C5: after loginWithPrivkey(h) with h the hex of a valid secret key, a
\* restart rebuilds from the slot alone a local-key session with the same
\* secret and the same public key and leaves the slot as it was; a restart
\* after a restart changes neither the session nor the slot.
C5_RestartRestoresPrivkeyLogin ==
    [][/\ (/\ last.op = "loginWithPrivkey"
           /\ last.status = "ok"
           /\ IsKeyHex(last.arg)
           /\ last'.op = "restart")
            => /\ LocalKey(store')
               /\ store'.privkey = last.arg
               /\ store'.pubkey = GetPublicKey(FromHex(last.arg))
               /\ store' = store
               /\ slot' = slot
       /\ (last.op = "restart" /\ last'.op = "restart")
            => /\ store' = store
               /\ slot' = slot]_vars

\* C5's case: the process has restarted right after a loginWithPrivkey of a
\* well-formed key and holds a local-key session.
C5_Witness ==
    /\ last.op = "restart"
    /\ prev = <<"loginWithPrivkey", "ok">>
    /\ LocalKey(store)
    /\ IsKeyHex(store.privkey)

\* C6: with the identity operations serialized, signOut leaves the session
\* logged out and the slot empty, and a restart after it yields a logged-out
\* session again.
C6_SignOutClearsSessionAndSlot ==
    [][/\ (last'.op = "signOut")
            => /\ LoggedOut(store')
               /\ slot' = NoKey
       /\ (last.op = "signOut" /\ last'.op = "restart")
            => /\ LoggedOut(store')
               /\ slot' = NoKey]_vars

\* C6's case: signOut has returned right after a successful loginWithPrivkey.
C6_Witness ==
    /\ last.op = "signOut"
    /\ prev = <<"loginWithPrivkey", "ok">>
    /\ LoggedOut(store)
    /\ slot = NoKey

\* C7: with the identity operations serialized, restarts included, a session
\* that holds a secret has that secret, in the hex form the session holds it
\* in, in the slot: every operation that enters a local-key session has
\* written the slot when it returns.
C7_LocalKeyIsPersisted ==
    (store.set /\ store.privkey # NoKey) => slot = store.privkey

\* C7's case: a key was generated in a logged-out session whose slot had been
\* cleared, and the slot now holds it.
C7_Witness ==
    /\ last.op = "loginWithRandomKeys"
    /\ prev = <<"signOut", "ok">>
    /\ LocalKey(store)
    /\ slot = store.privkey

\* C8: loginWithPrivkey(x) fails with MalformedKey, leaving session and slot
\* as they were, for every x that is not the hex encoding of exactly a key's
\* length in bytes; for every x that is the hex of a valid key it enters a
\* local-key session with secret x, whatever the state before.
C8_LoginWithPrivkeyValidates ==
    [][(last'.op = "loginWithPrivkey")
         => LET x == last'.arg
            IN  /\ ~IsKeyHex(x)
                     => /\ last'.status = "throw"
                        /\ last'.err = MalformedKey
                        /\ store' = store
                        /\ slot' = slot
                /\ (IsKeyHex(x) /\ ValidSecret(FromHex(x)))
                     => /\ last'.status = "ok"
                        /\ store' = Session(x, GetPublicKey(FromHex(x)))]_vars

\* C9: the profile cache holds at most one entry per public key in every
\* reachable state, also when getProfileMetadata calls for one key overlap
\* and both miss the cache before either relay query returns.
C9_OneCacheEntryPerKey ==
    \A publicKey \in Authors : Entries(profilesMetadata, publicKey) <= 1

\* C10 as claimed: for every relay outcome of the first call (metadata, no
\* metadata, error), a getProfileMetadata(K) started after a call for K has
\* returned issues no relay query.
C10_SecondCallNeverQueries ==
    [][(last'.op = "getProfileMetadata" /\ done[last'.arg] # {})
         => last'.ext = NoCall]_vars

\* C10 as amended: a getProfileMetadata(K) started after a call for K has
\* returned a metadata event issues no relay query and returns at once the
\* cache's entry for K; a call started after only null returns (no metadata,
\* or an error) misses the cache and issues one relay query of its own.
C10_SecondCallAfterFoundIsCacheHit ==
    [][(last'.op = "getProfileMetadata")
         => LET publicKey == last'.arg
            IN  /\ "event" \in done[publicKey]
                     => /\ last'.ext = NoCall
                        /\ last'.status = "ok"
                        /\ last'.ret # NullEvent
                        /\ last'.ret.pubkey = publicKey
                        /\ last'.ret = Find(profilesMetadata, publicKey)
                        /\ lookups' = lookups
                /\ (done[publicKey] # {} /\ "event" \notin done[publicKey])
                     => /\ last'.ext = "relayPool.get"
                        /\ last'.status = "pending"
                        /\ lookups'[publicKey] = lookups[publicKey] + 1]_vars

\* C10's case: a call for a key was served from the cache, no relay query
\* made, after an earlier call for the key had fetched the metadata.
C10_Witness ==
    /\ last.op = "getProfileMetadata"
    /\ last.status = "ok"
    /\ last.ext = NoCall
    /\ Entries(profilesMetadata, last.arg) = 1
    /\ lookups[last.arg] = 0

\* C11: getProfileMetadata never raises.  When the relay lookup fails it
\* returns null and leaves the cache as it was; when no relay has metadata it
\* returns null and leaves the cache as it was; the cache only ever grows by
\* the non-null event a lookup returned, and never holds a null.
C11_LookupNeverRaisesNullNotCached ==
    [][/\ (last'.op \in {"getProfileMetadata", "getProfileMetadata.returned",
                         "getProfileMetadata.failed"})
            => last'.status \in {"ok", "pending"}
       /\ (last'.op = "getProfileMetadata.failed")
            => /\ last'.status = "ok"
               /\ last'.ret = NullEvent
               /\ profilesMetadata' = profilesMetadata
       /\ (last'.op = "getProfileMetadata.returned" /\ last'.ret = NullEvent)
            => /\ last'.status = "ok"
               /\ profilesMetadata' = profilesMetadata
       /\ (profilesMetadata' # profilesMetadata)
            => /\ last'.op = "getProfileMetadata.returned"
               /\ last'.ret # NullEvent
               /\ profilesMetadata' = Append(profilesMetadata, last'.ret)
       /\ \A i \in 1..Len(profilesMetadata') :
            profilesMetadata'[i] # NullEvent]_vars

\* C11's case: a lookup has failed, its caller got null, and the cache still
\* holds what an earlier lookup had put there.
C11_Witness ==
    /\ last.op = "getProfileMetadata.failed"
    /\ last.ret = NullEvent
    /\ "null" \in done[last.arg]
    /\ Len(profilesMetadata) > 0

\* The steps of a createInvoice call.
InvoiceOps == {"createInvoice", "createInvoice.profile", "createInvoice.endpoint",
               "createInvoice.response"}

\* C12: createInvoice is an ordered pipeline.  The invoice request is fetched
\* only in the step that got the payment endpoint, by a call that has
\* decoded its recipient and holds that recipient's profile and an
\* endpoint.  A null profile throws ProfileNotFound and a null endpoint
\* throws NoPaymentEndpoint, both thrown to the caller by a call that has
\* fetched nothing and ends there.  The errors of decoding, of the profile,
\* of the endpoint and of the invoice request are four different ones, each
\* thrown by its own stage only.
C12_InvoicePipelineIsOrdered ==
    [][/\ (flow'.fetches > flow.fetches)
            => /\ last'.op = "createInvoice.endpoint"
               /\ flow.pc = "endpoint" /\ flow.fetches = 0
               /\ flow'.publicKey \in Authors
               /\ flow'.profile \in EventsOf(flow'.publicKey)
               /\ flow'.endpoint \in Endpoints /\ flow'.endpoint = last'.arg
       /\ (last'.op = "createInvoice.profile" /\ last'.arg = NullEvent)
            => /\ last'.status = "throws" /\ last'.err = ProfileNotFound
               /\ flow.fetches = 0 /\ flow' = IdleFlow
       /\ (last'.op = "createInvoice.endpoint" /\ last'.arg = NoEndpoint)
            => /\ last'.status = "throws" /\ last'.err = NoPaymentEndpoint
               /\ flow.fetches = 0 /\ flow' = IdleFlow
       /\ (last'.op \in InvoiceOps /\ last'.status = "throws")
            => /\ last'.err = InvalidRecipient <=> last'.op = "createInvoice"
               /\ last'.err = ProfileNotFound <=> last'.op = "createInvoice.profile"
               /\ last'.err = NoPaymentEndpoint => last'.op = "createInvoice.endpoint"
               /\ last'.err = InvoiceRequestFailed => last'.op = "createInvoice.response"
               /\ last'.ret = NoRet /\ flow' = IdleFlow
       /\ Cardinality({InvalidRecipient, ProfileNotFound, NoPaymentEndpoint,
                       InvoiceRequestFailed}) = 4]_vars

\* A call has just failed for want of a payment endpoint, its profile
\* having come from the relays.
C12_Witness ==
    /\ last.op = "createInvoice.endpoint" /\ last.err = NoPaymentEndpoint
    /\ flow = IdleFlow /\ Len(profilesMetadata) > 0

\* C13: when the invoice endpoint answers with a status that is not a
\* success, createInvoice throws InvoiceRequestFailed to its caller and
\* returns nothing, without calling Response.json on the body; that call
\* has fetched once and ends there, and no call ever fetches twice.
C13_FailedInvoiceRequestIsRethrown ==
    [][/\ (/\ last'.op = "createInvoice.response"
           /\ ~last'.arg.rejected /\ ~last'.arg.ok)
            => /\ last'.status = "throws" /\ last'.err = InvoiceRequestFailed
               /\ last'.ext = NoCall /\ last'.ret = NoRet
               /\ flow.fetches = 1 /\ flow' = IdleFlow
       /\ flow'.fetches <= 1
       /\ (flow'.fetches = 1) <=> (flow'.pc = "fetch")]_vars

\* The endpoint has answered with an error status and a JSON body.
C13_Witness ==
    /\ last.op = "createInvoice.response" /\ last.err = InvoiceRequestFailed
    /\ ~last.arg.ok /\ IsJson(last.arg.body)

\* C14: in every invoice request that is fetched, the `amount` parameter is
\* floor(amount * 1000), the zap request that the `nostr` parameter decodes
\* to carries that same number as its amount, and carries an e tag for the
\* event id it was given; and the endpoint's own parameters (those not
\* named comment, amount or nostr) are in the merged query.
C14_AmountIsMillisatsInBothPlaces ==
    (flow.pc = "fetch")
        => /\ flow.url.amount = MillisFloor(flow.amount)
           /\ JsonParse(flow.url.nostr).amount = AsNumber(flow.url.amount)
           /\ (flow.eventId # "") => (JsonParse(flow.url.nostr).e = flow.eventId)
           /\ \A q \in flow.endpoint.query :
                (q[1] \notin {"comment", "amount", "nostr"}) => (q \in flow.url.rest)

\* C15: a checkPayment call sends one GET, to the URL it was given, and
\* never another.  When the answer has a success status and a JSON body the
\* call returns what that body parses to, unchanged; when the status is not
\* a success it throws VerifyRequestFailed to its caller without calling
\* Response.json.
C15_CheckPaymentFetchesOnce ==
    [][/\ (last'.op = "checkPayment")
            => /\ check.fetches = 0 /\ check'.fetches = 1
               /\ last'.ext = "fetch" /\ check'.verify = last'.arg
       /\ (last'.op = "checkPayment.response")
            => /\ check.fetches = 1 /\ check' = IdleCheck
               /\ (~last'.arg.rejected /\ last'.arg.ok /\ IsJson(last'.arg.body))
                    => /\ last'.status = "ok"
                       /\ JsonStringify(last'.ret) = last'.arg.body
               /\ (~last'.arg.rejected /\ ~last'.arg.ok)
                    => /\ last'.status = "throws"
                       /\ last'.err = VerifyRequestFailed
                       /\ last'.ext = NoCall /\ last'.ret = NoRet
       /\ check'.fetches <= 1]_vars

\* A payment check has returned {paid: true}.
C15_Witness ==
    /\ last.op = "checkPayment.response" /\ last.status = "ok"
    /\ last.ret = [paid |-> TRUE]

\* C16: under any interleaving of the identity operations and restarts,
\* every step leaves a session that is logged out, or holds a secret key
\* together with the public key derived from it, or holds a public key and
\* no secret; the session a resumed tryLogin installs is the signer's
\* public key alone, whatever session it replaces.
C16_PublicKeyIsDerivedFromSecret ==
    [][/\ \/ store' = NullStore
          \/ /\ LocalKey(store')
             /\ store'.pubkey = GetPublicKey(FromHex(store'.privkey))
          \/ ExternalSigner(store')
       /\ (last'.op = "tryLogin.resolved")
            => /\ store' = Session(NoKey, last'.arg)
               /\ ExternalSigner(store')]_vars

\* A tryLogin has resumed over a session that held a secret key.
C16_Witness ==
    /\ last.op = "tryLogin.resolved" /\ prev[1] = "loginWithPrivkey"
    /\ ExternalSigner(store) /\ slot # NoKey

\* C17: the profile cache is set-once per key, overlapping lookups
\* included.  A call that returns a metadata event returns the one the cache
\* serves for its key from then on; a call started after an event was
\* returned for its key issues no relay query and returns that entry; and
\* the cache only grows at its end, no entry being removed or replaced.
C17_CacheIsSetOncePerKey ==
    [][/\ (last'.op = "getProfileMetadata.returned" /\ last'.ret # NullEvent)
            => last'.ret = Find(profilesMetadata', last'.arg)
       /\ (last'.op = "getProfileMetadata" /\ "event" \in done[last'.arg])
            => /\ last'.ext = NoCall
               /\ last'.ret = Find(profilesMetadata, last'.arg)
               /\ last'.ret = Find(profilesMetadata', last'.arg)
       /\ Len(profilesMetadata') >= Len(profilesMetadata)
       /\ SubSeq(profilesMetadata', 1, Len(profilesMetadata)) = profilesMetadata
      ]_vars

\* C18 as claimed: whenever no identity operation is suspended, overlapping
\* operations or not, the slot is non-empty exactly when the session is a
\* LocalKey one holding the slot's secret.
C18_SlotAgreesWhenIdle ==
    Idle => ((slot # NoKey) <=> (LocalKey(store) /\ store.privkey = slot))

\* C18 as amended: after every step, overlapping or not, a LocalKey session
\* has its secret in the slot and a logged-out session has an empty slot.
\* An ExternalSigner session next to a non-empty slot arises in one way
\* only: a suspended tryLogin resumes over a LocalKey session, whose secret
\* stays in the slot; and it lasts for as long as that session does.
C18_SlotAgreesExceptAfterOverlappedTryLogin ==
    [][/\ LocalKey(store') => slot' = store'.privkey
       /\ LoggedOut(store') => slot' = NoKey
       /\ (ExternalSigner(store') /\ slot' # NoKey)
            => \/ /\ ExternalSigner(store) /\ slot' = slot
               \/ /\ last'.op = "tryLogin.resolved"
                  /\ LocalKey(store) /\ slot' = store.privkey]_vars

\* Nothing is suspended, the session is the signer's and the slot holds the
\* random key that a second tryLogin fell back to in the meantime.
C18_Witness ==
    /\ Idle /\ ExternalSigner(store) /\ slot # NoKey
    /\ last.op = "tryLogin.resolved" /\ prev[1] = "tryLogin.rejected"

\* The operations that start a login.
LoginOps == {"tryLogin", "loginWithPrivkey", "loginWithRandomKeys"}

\* C19 as claimed: after signOut has returned, for as long as no login
\* operation is invoked, the session is logged out and the slot empty, also
\* when a tryLogin invoked before the signOut resumes (stated for the two
\* steps that follow the signOut).
C19_SignOutIsFinalUntilLogin ==
    [][(/\ \/ last.op = "signOut"
           \/ prev[1] = "signOut" /\ last.op \notin LoginOps
        /\ last'.op \notin LoginOps)
         => /\ LoggedOut(store')
            /\ slot' = NoKey]_vars

\* C19 as amended: signOut leaves the session logged out and the slot
\* empty.  They stay so through every step that neither invokes a login nor
\* resumes a tryLogin that was suspended before the signOut; and when no
\* tryLogin is suspended, through every step that does not invoke a login,
\* none being suspended afterwards either.
C19_SignOutIsFinalUnlessTryLoginSuspended ==
    [][/\ (last'.op = "signOut")
            => /\ LoggedOut(store') /\ slot' = NoKey
       /\ (/\ LoggedOut(store) /\ slot = NoKey
           /\ last'.op \notin LoginOps \cup {"tryLogin.resolved", "tryLogin.rejected"})
            => /\ LoggedOut(store') /\ slot' = NoKey
       /\ (/\ LoggedOut(store) /\ slot = NoKey /\ Idle
           /\ last'.op \notin LoginOps)
            => /\ LoggedOut(store') /\ slot' = NoKey /\ Idle']_vars

\* A tryLogin suspended before a signOut has resumed right after it, and
\* the session is active again.
C19_Witness ==
    /\ last.op = "tryLogin.resolved" /\ prev = <<"signOut", "ok">>
    /\ Active(store)

\* C20: with the identity operations serialized, a session that holds the
\* signer's public key and no secret is never persisted: after every step
\* such a session has an empty slot, a non-empty slot holds the secret key
\* of the session (whose public key is derived from it), and a restart from
\* such a session yields a logged-out session and an empty slot.
C20_ExternalSignerIsNeverPersisted ==
    [][/\ ExternalSigner(store') => slot' = NoKey
       /\ (slot' # NoKey)
            => /\ LocalKey(store')
               /\ slot' = store'.privkey
               /\ store'.pubkey = GetPublicKey(FromHex(slot'))
       /\ (ExternalSigner(store) /\ last'.op = "restart")
            => /\ LoggedOut(store') /\ slot' = NoKey]_vars

\* The process has restarted from a session established by the signer.
C20_Witness ==
    /\ last.op = "restart" /\ prev = <<"tryLogin.resolved", "ok">>
    /\ LoggedOut(store) /\ slot = NoKey

====
